---- MODULE Spec2Model ----
(***************************************************************************)
(* A model of the gastown orchestrator core:                               *)
(*   - the synchronous session exchange of `gt mayor chat`                 *)
(*     (internal/cmd/mayor_chat.go: runMayorChat, sendAndCaptureResponse,  *)
(*     extractResponse, cleanResponseLines, isUIArtifact);                 *)
(*   - the convoy work-dispatch scheduler (internal/convoy), of which the  *)
(*     repository holds the tests only;                                    *)
(*   - the machine registry, the address parser and the mail router of     *)
(*     docs/town-design.md (Registry.GetConnection, ParseAddress,          *)
(*     MailRouter.Deliver).                                                *)
(*                                                                         *)
(* Text is modelled as it is: a string is a sequence of one-character      *)
(* strings, a capture is a sequence of lines.  Three glyphs of the         *)
(* terminal UI are written with ASCII stand-ins:                           *)
(*   "-" for U+2500 (box-drawing horizontal rule),                         *)
(*   ">" for U+276F (the prompt glyph),                                    *)
(*   "^" for U+23F5 (the permission-mode banner glyph).                    *)
(* Time is in milliseconds.                                                *)
(***************************************************************************)
EXTENDS Integers, Sequences, FiniteSets, TLC

VARIABLES
    \* ---- gt mayor chat ----
    pc,             \* position of the command
    now,            \* the wall clock, ms
    message,        \* the message to send
    timeout,        \* --timeout, ms
    beforeLen,      \* len(beforeLines)
    deadline,       \* time.Now().Add(timeout)
    lastContent,    \* content of the last poll that detected a change
    lastChangeTime, \* time of that poll
    firstCheck,     \* no change detected yet
    result,         \* how the command ended
    response,       \* the text printed on success
    \* ---- what an observer of the session sees (history) ----
    running,        \* what IsRunning answered
    nCaptures,      \* capture calls issued (baseline and polls)
    nPolls,         \* poll captures issued
    nSends,         \* NudgeSession calls issued
    captureFailed,  \* some capture returned an error
    capsAfterFail,  \* captures issued after a failed one
    pollStart,      \* the time polling started
    obsLines,       \* lines of the latest poll capture
    obsRunStart,    \* time of the first poll of the current run of equal captures
    obsSame,        \* the latest poll showed the same text as the poll before
    obsSpan,        \* at the latest poll, the time since obsRunStart
    obsChanges,     \* polls whose text differed from the poll before
    obsStableSeen,  \* some poll saw its text unchanged for the window, after a change
    sendFailed,     \* NudgeSession returned an error
    \* ---- the convoy scheduler and the issue store ----
    issues,         \* the tracked issues, in the store's order
    storeUp,        \* the issue store is there (not nil, not unavailable)
    storeBlocked,   \* the issues the store reports as blocked
    sched,          \* where the coordinating scheduler is in its pass, and the
                    \* issue it has selected
    lastPass,       \* the scheduler's latest call, when it was the latest step:
                    \* the operation, its issue, that issue's status before the
                    \* call, and how the call ended
    dispatchCount,  \* per issue, the Dispatch calls made for it since it was
                    \* last re-opened by an external actor (counted up to 2)
    \* ---- the classification and selection functions, applied to inputs ----
    tracked,        \* the list handed to SelectNextReady
    probe,          \* the type string handed to IsSlingableType
    selected,       \* what SelectNextReady returned
    slingable,      \* what IsSlingableType returned
    \* ---- extractIssueID, CheckConvoysForIssue, ParseAddress applied to inputs ----
    rawID,          \* <<the reference handed to extractIssueID>>
    refID,          \* <<what extractIssueID returned>>
    ccArgs,         \* the arguments of a CheckConvoysForIssue call
    ccOut,          \* <<what that call returned and did>>
    addrIn,         \* <<the text handed to ParseAddress>>
    addrOut,        \* <<how ParseAddress ended>>
    \* ---- the machine registry and the mail router ----
    proc,           \* per caller (goroutine): its current GetConnection or
                    \* Deliver call, its position in it, its locals and result
    conns,          \* r.conns, the connection cache
    built,          \* per machine name, the Transports constructed for it
    handedOut,      \* per machine name, the Transports returned without error
    files,          \* per inbox file written so far, the records it holds
    calls,          \* calls started
    halted,         \* the program ended in a panic or a fatal run-time error
    serial,         \* the callers never overlap their calls
    \* ---- cleanResponseLines and extractResponse applied to inputs ----
    txtIn,          \* the function applied and its arguments
    txtOut          \* <<the lines it kept>>

chatVars == <<pc, now, message, timeout, beforeLen, deadline, lastContent,
              lastChangeTime, firstCheck, result, response>>
obsVars == <<running, nCaptures, nPolls, nSends, captureFailed, capsAfterFail,
             pollStart, obsLines, obsRunStart, obsSame, obsSpan, obsChanges,
             obsStableSeen, sendFailed>>
schedVars == <<issues, storeUp, storeBlocked, sched, lastPass, dispatchCount>>
funVars == <<tracked, probe, selected, slingable>>
pureVars == <<rawID, refID, ccArgs, ccOut, addrIn, addrOut>>
fedVars == <<proc, conns, built, handedOut, files, calls, halted, serial>>
textVars == <<txtIn, txtOut>>
vars == <<chatVars, obsVars, schedVars, funVars, pureVars, fedVars, textVars>>

-----------------------------------------------------------------------------
(* Bounds of the model *)

MaxTimeoutSteps == 7   \* --timeout ranges over -1 .. MaxTimeoutSteps half seconds
MaxDelaySteps == 1     \* a call or a sleep may overrun by 0 .. MaxDelaySteps half seconds
MaxChanges == 3        \* the observer counts changes up to this

(* Program constants *)

PollInterval == 500
StabilityRequired == 2000

Timeouts == {k * 500 : k \in (0 - 1)..MaxTimeoutSteps}
Delays == {k * 500 : k \in 0..MaxDelaySteps}

\* `var lastChangeTime time.Time`: the zero time, far in the past
ZeroTime == 0 - 1000000

-----------------------------------------------------------------------------
(* package strings *)

RuleGlyph == "-"
PromptGlyph == ">"
BannerGlyph == "^"
\* The white space strings.TrimSpace removes (unicode.IsSpace).  A character
\* that has no escape here is written as one symbol named after it: "VT" is
\* U+000B, "NEL" U+0085, "NBSP" U+00A0, the others carry their code point.
WhiteSpace ==
    {" ", "\t", "\n", "VT", "\f", "\r", "NEL", "NBSP",
     "U+1680", "U+2000", "U+2001", "U+2002", "U+2003", "U+2004", "U+2005",
     "U+2006", "U+2007", "U+2008", "U+2009", "U+200A", "U+2028", "U+2029",
     "U+202F", "U+205F", "U+3000"}
NL == <<"\n">>

HasPrefix(s, p) == Len(s) >= Len(p) /\ SubSeq(s, 1, Len(p)) = p

Contains(s, sub) ==
    \E i \in 1..(Len(s) - Len(sub) + 1) : SubSeq(s, i, i + Len(sub) - 1) = sub

RECURSIVE TrimLeft(_, _)
TrimLeft(s, cut) ==
    IF s # <<>> /\ Head(s) \in cut THEN TrimLeft(Tail(s), cut) ELSE s

RECURSIVE TrimRight(_, _)
TrimRight(s, cut) ==
    IF s # <<>> /\ s[Len(s)] \in cut
    THEN TrimRight(SubSeq(s, 1, Len(s) - 1), cut)
    ELSE s

Trim(s, cut) == TrimRight(TrimLeft(s, cut), cut)

TrimSpace(s) == Trim(s, WhiteSpace)

RECURSIVE Join(_, _)
Join(lines, sep) ==
    IF lines = <<>> THEN <<>>
    ELSE IF Len(lines) = 1 THEN lines[1]
    ELSE lines[1] \o sep \o Join(Tail(lines), sep)

-----------------------------------------------------------------------------
(* isUIArtifact, cleanResponseLines, extractResponse *)

BypassPhrase ==
    <<"b","y","p","a","s","s"," ","p","e","r","m","i","s","s","i","o","n","s">>

isUIArtifactAnyRule(line) ==
    \/ HasPrefix(line, <<RuleGlyph>>)
    \/ line = <<PromptGlyph>>
    \/ HasPrefix(line, <<PromptGlyph, " ">>)
    \/ Contains(line, BypassPhrase)
    \/ HasPrefix(line, <<BannerGlyph, BannerGlyph>>)

isUIArtifact(line) ==
    \/ HasPrefix(line, <<RuleGlyph>>) /\ Len(Trim(line, {RuleGlyph, " "})) = 0
    \/ line = <<PromptGlyph>>
    \/ HasPrefix(line, <<PromptGlyph, " ">>)
    \/ Contains(line, BypassPhrase)
    \/ HasPrefix(line, <<BannerGlyph, BannerGlyph>>)

\* the loop of cleanResponseLines over the lines, `cleaned` being its accumulator
RECURSIVE CleanLoop(_, _)
CleanLoop(lines, cleaned) ==
    IF lines = <<>> THEN cleaned
    ELSE LET line == Head(lines)
             trimmed == TrimSpace(line)
         IN  IF Len(cleaned) = 0 /\ trimmed = <<>>
             THEN CleanLoop(Tail(lines), cleaned)
             ELSE IF isUIArtifact(trimmed)
             THEN CleanLoop(Tail(lines), cleaned)
             ELSE CleanLoop(Tail(lines), Append(cleaned, line))

DropTrailingBlankNever(cleaned) == cleaned

RECURSIVE DropTrailingBlank(_)
DropTrailingBlank(cleaned) ==
    IF Len(cleaned) > 0 /\ TrimSpace(cleaned[Len(cleaned)]) = <<>>
    THEN DropTrailingBlank(SubSeq(cleaned, 1, Len(cleaned) - 1))
    ELSE cleaned

\* the lines cleanResponseLines keeps, before they are joined
CleanedLines(lines) == DropTrailingBlank(CleanLoop(lines, <<>>))

cleanResponseLines(lines) == Join(CleanedLines(lines), NL)

MessageStartLast(lines, sentMessage) ==
    IF \E i \in 1..Len(lines) : Contains(lines[i], sentMessage)
    THEN CHOOSE i \in 1..Len(lines) :
            /\ Contains(lines[i], sentMessage)
            /\ \A j \in (i + 1)..Len(lines) : ~Contains(lines[j], sentMessage)
    ELSE 0

\* index (from 1) of the first line containing the message, 0 when there is none
MessageStart(lines, sentMessage) ==
    IF \E i \in 1..Len(lines) : Contains(lines[i], sentMessage)
    THEN CHOOSE i \in 1..Len(lines) :
            /\ Contains(lines[i], sentMessage)
            /\ \A j \in 1..(i - 1) : ~Contains(lines[j], sentMessage)
    ELSE 0

ResponseLinesNoBaseline(lines, before, sentMessage) ==
    IF MessageStart(lines, sentMessage) = 0 THEN lines
    ELSE SubSeq(lines, MessageStart(lines, sentMessage) + 1, Len(lines))

\* the lines extractResponse hands to cleanResponseLines
ResponseLines(lines, before, sentMessage) ==
    LET messageStart == MessageStart(lines, sentMessage)
    IN  IF messageStart = 0
        THEN IF Len(lines) > before
             THEN SubSeq(lines, before + 1, Len(lines))
             ELSE lines
        ELSE SubSeq(lines, messageStart + 1, Len(lines))

extractResponse(lines, before, sentMessage) ==
    cleanResponseLines(ResponseLines(lines, before, sentMessage))

-----------------------------------------------------------------------------
(* internal/convoy: issue types, readiness, selection *)

NumIssues == 2     \* issues in the store
MaxList == 3       \* length of a list handed to SelectNextReady

Workers == {"gastown/polecats/alpha"}
Statuses == {"open", "in_progress", "hooked", "closed"}

\* every type string of TestIsSlingableType
AllTypes == {"", "task", "bug", "feature", "chore", "epic", "convoy", "sub-epic",
             "decision", "message", "event", "unknown"}

\* TestIsSlingableType: the table of {issueType, want}
SlingableTable ==
    { <<"task", TRUE>>, <<"bug", TRUE>>, <<"feature", TRUE>>, <<"chore", TRUE>>,
      <<"", TRUE>>, <<"epic", FALSE>>, <<"convoy", FALSE>>, <<"sub-epic", FALSE>>,
      <<"decision", FALSE>>, <<"message", FALSE>>, <<"event", FALSE>>,
      <<"unknown", FALSE>> }

\* IsSlingableType: the empty type defaults to task; the four work types
IsSlingableTypeNoDefault(issueType) ==
    issueType \in {"task", "bug", "feature", "chore"}
IsSlingableType(issueType) ==
    issueType = "" \/ issueType \in {"task", "bug", "feature", "chore"}

\* the readiness predicate of feedNextReadyIssue
IsReadyAnyType(issue) == issue.Status = "open" /\ issue.Assignee = ""
IsReadyAnyStatus(issue) == issue.Assignee = "" /\ IsSlingableType(issue.IssueType)
IsReady(issue) ==
    issue.Status = "open" /\ issue.Assignee = "" /\ IsSlingableType(issue.IssueType)

\* the same scan without the break: the last match wins
RECURSIVE ScanReadyLast(_, _)
ScanReadyLast(list, i) ==
    IF i > Len(list) THEN 0
    ELSE LET later == ScanReadyLast(list, i + 1)
         IN  IF later # 0 THEN later
             ELSE IF IsReady(list[i]) THEN i
             ELSE 0

\* `for _, issue := range tracked { if ready { found; break } }` from index i on;
\* 0 is "none"
RECURSIVE ScanReady(_, _)
ScanReady(list, i) ==
    IF i > Len(list) THEN 0
    ELSE IF IsReady(list[i]) THEN i
    ELSE ScanReady(list, i + 1)

SelectNextReady(list) == ScanReady(list, 1)

-----------------------------------------------------------------------------
(* internal/convoy: blocking and dispatch *)

\* IsBlocked: the outcomes a call can have.  With a store the store is asked.
\* Without one the call is to give "unknown"; the one test that names the
\* case says the function calls store methods, which on a nil store ends the
\* scheduler in a panic: both outcomes are possible.
IsBlocked(up, blockedSet, id) ==
    IF ~up THEN {"unknown", "panic"}
    ELSE IF id \in blockedSet THEN {"blocked"}
    ELSE {"clear"}

\* the workers a Dispatch may name
IdleWorkers == {"gastown/polecats/alpha", "gastown/polecats/beta"}

\* Dispatch(issue, worker) -> error: the ways a call can end.  The issue is
\* marked first and the work notification delivered next; without a store
\* the marking fails.
DispatchOutcomes(up) ==
    IF up THEN {"ok", "err_mark", "err_deliver"} ELSE {"err_mark"}

\* Dispatch: mark the issue assigned (its current status is not looked at)
DispatchUnmarked(list, id, worker) == list
Dispatch(list, id, worker) ==
    [list EXCEPT ![id].Assignee = worker, ![id].Status = "in_progress"]

IssueRecs ==
    [Status : Statuses, Assignee : {""} \cup Workers, IssueType : {"task", "epic"}]

\* lastPass when the latest step was not the scheduler's
NoPass == [op |-> "none", issue |-> 0, before |-> "", outcome |-> ""]

\* the scheduler between two passes
BetweenPasses == [pc |-> "idle", sel |-> 0]

IdleSched ==
    /\ issues = <<>>
    /\ storeUp = TRUE
    /\ storeBlocked = {}
    /\ sched = BetweenPasses
    /\ lastPass = NoPass
    /\ dispatchCount = <<>>

IdleFun ==
    /\ tracked = <<>>
    /\ probe = ""
    /\ selected = 0 - 1
    /\ slingable = <<>>

\* no CheckConvoysForIssue call
NoCall ==
    [store |-> "none", convoys |-> 0, logger |-> "none", issue |-> 0,
     extra |-> "none"]

IdlePure ==
    /\ rawID = <<>>
    /\ refID = <<>>
    /\ ccArgs = NoCall
    /\ ccOut = <<>>
    /\ addrIn = <<>>
    /\ addrOut = <<>>

\* no text function applied
NoText == [fn |-> "none", lines |-> <<>>, before |-> 0, msg |-> <<>>]

IdleText ==
    /\ txtIn = NoText
    /\ txtOut = <<>>

IdleFed ==
    /\ proc = <<>>
    /\ conns = <<>>
    /\ built = <<>>
    /\ handedOut = <<>>
    /\ files = <<>>
    /\ calls = 0
    /\ halted = "no"
    /\ serial = TRUE

IdleChat ==
    /\ pc = "idle"
    /\ now = 0
    /\ message = <<>>
    /\ timeout = 0
    /\ beforeLen = 0
    /\ deadline = 0
    /\ lastContent = <<>>
    /\ lastChangeTime = 0
    /\ firstCheck = TRUE
    /\ result = "none"
    /\ response = <<>>
    /\ running = "unchecked"
    /\ nCaptures = 0
    /\ nPolls = 0
    /\ nSends = 0
    /\ captureFailed = FALSE
    /\ capsAfterFail = 0
    /\ pollStart = 0
    /\ obsLines = <<>>
    /\ obsRunStart = 0
    /\ obsSame = FALSE
    /\ obsSpan = 0
    /\ obsChanges = 0
    /\ obsStableSeen = FALSE
    /\ sendFailed = FALSE

InitSched ==
    /\ IdleText
    /\ IdleChat
    /\ IdleFun
    /\ IdlePure
    /\ IdleFed
    /\ issues \in [1..NumIssues -> IssueRecs]
    /\ storeUp \in BOOLEAN
    /\ storeBlocked \in SUBSET (1..NumIssues)
    /\ sched = BetweenPasses
    /\ lastPass = NoPass
    /\ dispatchCount = [i \in 1..NumIssues |-> 0]

\* The coordinating scheduler makes its calls one after the other:
\* SelectNextReady, then IsBlocked for the issue selected, then Dispatch when
\* the answer was clear.  Each call is a step of its own against the external
\* store, and the external actors act between the calls.

\* SelectNextReady over the issues listed from the store; a store that is not
\* there gives an error and no selection
CallSelectNextReady ==
    /\ UNCHANGED <<chatVars, obsVars, funVars, pureVars, fedVars, textVars>>
    /\ sched.pc = "idle"
    /\ IF ~storeUp
       THEN /\ lastPass' = [op |-> "SelectNextReady", issue |-> 0, before |-> "",
                            outcome |-> "err_store"]
            /\ UNCHANGED sched
       ELSE LET sel == SelectNextReady(issues)
            IN  /\ sched' = IF sel = 0 THEN BetweenPasses
                            ELSE [pc |-> "selected", sel |-> sel]
                /\ lastPass' = [op |-> "SelectNextReady", issue |-> sel,
                                before |-> IF sel = 0 THEN ""
                                           ELSE issues[sel].Status,
                                outcome |-> IF sel = 0 THEN "none" ELSE "found"]
    /\ UNCHANGED <<issues, storeUp, storeBlocked, dispatchCount>>

\* IsBlocked for the selected issue; only a clear answer leads on to Dispatch
CallIsBlocked ==
    /\ UNCHANGED <<chatVars, obsVars, funVars, pureVars, fedVars, textVars>>
    /\ sched.pc = "selected"
    /\ \E out \in IsBlocked(storeUp, storeBlocked, sched.sel) :
          /\ sched' = IF out = "clear" THEN [sched EXCEPT !.pc = "cleared"]
                      ELSE IF out = "panic" THEN [pc |-> "panicked", sel |-> 0]
                      ELSE BetweenPasses
          /\ lastPass' = [op |-> "IsBlocked", issue |-> sched.sel,
                          before |-> issues[sched.sel].Status, outcome |-> out]
    /\ UNCHANGED <<issues, storeUp, storeBlocked, dispatchCount>>

\* Dispatch of the selected issue to a worker; it does not look at the issue
\* again before it marks it
CallDispatch ==
    /\ UNCHANGED <<chatVars, obsVars, funVars, pureVars, fedVars, textVars>>
    /\ sched.pc = "cleared"
    /\ \E worker \in IdleWorkers, out \in DispatchOutcomes(storeUp) :
          /\ issues' = IF out = "err_mark" THEN issues
                       ELSE Dispatch(issues, sched.sel, worker)
          /\ dispatchCount' =
                IF out = "err_mark" THEN dispatchCount
                ELSE [dispatchCount EXCEPT ![sched.sel] = IF @ < 2 THEN @ + 1 ELSE @]
          /\ lastPass' = [op |-> "Dispatch", issue |-> sched.sel,
                          before |-> issues[sched.sel].Status, outcome |-> out]
    /\ sched' = BetweenPasses
    /\ UNCHANGED <<storeUp, storeBlocked>>

\* external actors: completion, hold, release; the store comes and goes; the
\* dependency graph changes
ExternalComplete(i) ==
    /\ issues[i].Status = "in_progress"
    /\ issues' = [issues EXCEPT ![i].Status = "closed"]
    /\ lastPass' = NoPass
    /\ UNCHANGED <<storeUp, storeBlocked, sched, dispatchCount>>
    /\ UNCHANGED <<chatVars, obsVars, funVars, pureVars, fedVars, textVars>>

ExternalHold(i) ==
    /\ issues[i].Status \in {"open", "in_progress"}
    /\ issues' = [issues EXCEPT ![i].Status = "hooked"]
    /\ lastPass' = NoPass
    /\ UNCHANGED <<storeUp, storeBlocked, sched, dispatchCount>>
    /\ UNCHANGED <<chatVars, obsVars, funVars, pureVars, fedVars, textVars>>

ExternalRelease(i) ==
    /\ issues[i].Status = "hooked"
    /\ \E keep \in BOOLEAN :
          issues' = [issues EXCEPT ![i].Status = "open",
                                   ![i].Assignee = IF keep THEN @ ELSE ""]
    /\ dispatchCount' = [dispatchCount EXCEPT ![i] = 0]
    /\ lastPass' = NoPass
    /\ UNCHANGED <<storeUp, storeBlocked, sched>>
    /\ UNCHANGED <<chatVars, obsVars, funVars, pureVars, fedVars, textVars>>

StoreChange ==
    /\ storeUp' = ~storeUp
    /\ lastPass' = NoPass
    /\ UNCHANGED <<issues, storeBlocked, sched, dispatchCount>>
    /\ UNCHANGED <<chatVars, obsVars, funVars, pureVars, fedVars, textVars>>

BlockingChange(i) ==
    /\ storeBlocked' = IF i \in storeBlocked THEN storeBlocked \ {i}
                       ELSE storeBlocked \cup {i}
    /\ lastPass' = NoPass
    /\ UNCHANGED <<issues, storeUp, sched, dispatchCount>>
    /\ UNCHANGED <<chatVars, obsVars, funVars, pureVars, fedVars, textVars>>

NextSched ==
    \/ CallSelectNextReady
    \/ CallIsBlocked
    \/ CallDispatch
    \/ \E i \in 1..NumIssues : ExternalComplete(i)
    \/ \E i \in 1..NumIssues : ExternalHold(i)
    \/ \E i \in 1..NumIssues : ExternalRelease(i)
    \/ StoreChange
    \/ \E i \in 1..NumIssues : BlockingChange(i)

SpecSched == InitSched /\ [][NextSched]_vars

-----------------------------------------------------------------------------
(* SelectNextReady and IsSlingableType applied to inputs *)

TrackedRecs ==
    [Status : Statuses, Assignee : {""} \cup Workers,
     IssueType : {"", "task", "epic"}]

TrackedLists == UNION {[1..n -> TrackedRecs] : n \in 0..MaxList}

InitFun ==
    /\ IdleText
    /\ IdleChat
    /\ IdleSched
    /\ IdlePure
    /\ IdleFed
    /\ tracked \in TrackedLists
    /\ probe \in AllTypes
    /\ tracked = <<>> \/ probe = ""
    /\ selected = 0 - 1
    /\ slingable = <<>>

ApplySelectNextReady ==
    /\ selected = 0 - 1
    /\ selected' = SelectNextReady(tracked)
    /\ UNCHANGED <<tracked, probe, slingable>>
    /\ UNCHANGED <<chatVars, obsVars, schedVars, pureVars, fedVars, textVars>>

ApplyIsSlingableType ==
    /\ slingable = <<>>
    /\ slingable' = <<IsSlingableType(probe)>>
    /\ UNCHANGED <<tracked, probe, selected>>
    /\ UNCHANGED <<chatVars, obsVars, schedVars, pureVars, fedVars, textVars>>

NextFun ==
    \/ ApplySelectNextReady
    \/ ApplyIsSlingableType

SpecFun == InitFun /\ [][NextFun]_vars

-----------------------------------------------------------------------------
(* The session: what tmux may show.  A capture returns any of these panes. *)

Msg == <<"h", "i">>
Messages == {Msg}

\* `args[0]` when the command is given an argument
Arguments == Messages \cup {<<>>}

\* what io.ReadAll(os.Stdin) yields when the command is given no argument
StdinTexts == {<<>>, <<"\n">>, <<" ">> \o Msg \o <<"\n">>, Msg \o <<"NBSP">>}

EchoLine == <<">", " ", "h", "i">>
ReplyLine == <<"o", "k">>
RuleLine == <<"-", "-">>
PromptLine == <<">">>

Panes ==
    { <<>>,                                         \* nothing captured
      << <<>> >>,                                   \* one blank line
      <<EchoLine>>,                                 \* the echo of the message
      <<EchoLine, ReplyLine, RuleLine, PromptLine>>,\* echo, reply, UI chrome
      <<ReplyLine, <<>>, ReplyLine>> }              \* the echo has scrolled out

Min(a, b) == IF a < b THEN a ELSE b

-----------------------------------------------------------------------------
(* strings.Index, strings.SplitN, strings.Split with a one-character separator *)

Index(s, c) ==
    IF \E i \in 1..Len(s) : s[i] = c
    THEN CHOOSE i \in 1..Len(s) : s[i] = c /\ \A j \in 1..(i - 1) : s[j] # c
    ELSE 0

\* at most n pieces (n >= 1), the last one the unsplit remainder
RECURSIVE SplitN(_, _, _)
SplitN(s, c, n) ==
    IF n = 1 \/ Index(s, c) = 0 THEN <<s>>
    ELSE <<SubSeq(s, 1, Index(s, c) - 1)>>
         \o SplitN(SubSeq(s, Index(s, c) + 1, Len(s)), c, n - 1)

Split(s, c) == SplitN(s, c, Len(s) + 1)

\* the number of occurrences of c in s
Count(s, c) == Cardinality({i \in 1..Len(s) : s[i] = c})

-----------------------------------------------------------------------------
(* extractIssueID *)

MaxIdLen == 4          \* references of up to this many characters are tried

\* the cases of TestExtractIssueID
TestExtractIssueID ==
    <<
       [id |-> <<"g", "t", "-", "a", "b", "c">>,
        want |-> <<"g", "t", "-", "a", "b", "c">>],
       [id |-> <<"b", "d", "-", "x", "y", "z">>,
        want |-> <<"b", "d", "-", "x", "y", "z">>],
       [id |-> <<"h", "q", "-", "c", "v", "-", "1", "2", "3">>,
        want |-> <<"h", "q", "-", "c", "v", "-", "1", "2", "3">>],
       [id |-> <<"e", "x", "t", "e", "r", "n", "a", "l", ":", "g", "t", ":", "g", "t", "-", "a", "b", "c">>,
        want |-> <<"g", "t", "-", "a", "b", "c">>],
       [id |-> <<"e", "x", "t", "e", "r", "n", "a", "l", ":", "b", "d", ":", "b", "d", "-", "x", "y", "z">>,
        want |-> <<"b", "d", "-", "x", "y", "z">>],
       [id |-> <<"e", "x", "t", "e", "r", "n", "a", "l", ":", "h", "q", ":", "h", "q", "-", "c", "v", "-", "1", "2", "3">>,
        want |-> <<"h", "q", "-", "c", "v", "-", "1", "2", "3">>],
       [id |-> <<"e", "x", "t", "e", "r", "n", "a", "l", ":">>,
        want |-> <<"e", "x", "t", "e", "r", "n", "a", "l", ":">>],
       [id |-> <<"e", "x", "t", "e", "r", "n", "a", "l", ":", "x", ":">>,
        want |-> <<>>],
       [id |-> <<"s", "i", "m", "p", "l", "e">>,
        want |-> <<"s", "i", "m", "p", "l", "e">>],
       [id |-> <<>>,
        want |-> <<>>]
    >>

extractIssueIDLastPiece(id) ==
    Split(id, ":")[Len(Split(id, ":"))]

\* three pieces around ':' give the third piece, anything else the input
extractIssueID(id) ==
    IF Len(Split(id, ":")) = 3 THEN Split(id, ":")[3] ELSE id

\* all strings over `alphabet` of at most n characters
StringsUpTo(alphabet, n) == UNION {[1..k -> alphabet] : k \in 0..n}

RawIDs ==
    {TestExtractIssueID[k].id : k \in 1..Len(TestExtractIssueID)}
    \cup StringsUpTo({"x", ":"}, MaxIdLen)

ApplyExtractIssueID ==
    /\ rawID # <<>>
    /\ refID = <<>>
    /\ refID' = <<extractIssueID(rawID[1])>>
    /\ UNCHANGED <<rawID, ccArgs, ccOut, addrIn, addrOut>>
    /\ UNCHANGED <<chatVars, obsVars, schedVars, funVars, fedVars, textVars>>

-----------------------------------------------------------------------------
(* CheckConvoysForIssue *)

MaxConvoys == 2        \* a store holds up to this many convoys tracking an issue

\* The arguments of a call.  `store`, `logger` and `extra` (extraArgs) are
\* "nil" or given; `convoys` is the number of convoys of the store that track
\* the issue (none without a store).
CheckArgs ==
    {a \in [store : {"nil", "store"}, convoys : 0..MaxConvoys,
            logger : {"nil", "logger"}, issue : 1..NumIssues,
            extra : {"nil", "args"}] :
        a.store = "nil" => a.convoys = 0}

\* what a call returned and did: the result ("none" is Go's nil), the convoy
\* checks made, the lines that reached the caller's logger, a failure (panic)
CheckOutcome(res, nChecks, nLogged, didFail) ==
    [result |-> res, checks |-> nChecks, logged |-> nLogged, failed |-> didFail]

\* a nil logger is replaced with a no-op sink: nothing reaches the caller
Logged(logger, n) == IF logger = "nil" THEN 0 ELSE n

CheckConvoysForIssueNoShortCircuit(a) ==
    IF a.store = "nil" THEN CheckOutcome("none", 1, Logged(a.logger, 1), TRUE)
    ELSE CheckOutcome(IF a.convoys = 0 THEN "none" ELSE "actions",
                      a.convoys, Logged(a.logger, a.convoys), FALSE)

\* one check per convoy that tracks the issue, one ConvoyAction per check
CheckConvoysForIssue(a) ==
    IF a.store = "nil" THEN CheckOutcome("none", 0, 0, FALSE)
    ELSE CheckOutcome(IF a.convoys = 0 THEN "none" ELSE "actions",
                      a.convoys, Logged(a.logger, a.convoys), FALSE)

ApplyCheckConvoysForIssue ==
    /\ ccArgs # NoCall
    /\ ccOut = <<>>
    /\ ccOut' = <<CheckConvoysForIssue(ccArgs)>>
    /\ UNCHANGED <<rawID, refID, ccArgs, addrIn, addrOut>>
    /\ UNCHANGED <<chatVars, obsVars, schedVars, funVars, fedVars, textVars>>

-----------------------------------------------------------------------------
(* identity.ParseAddress *)

MaxAddrLen == 5        \* addresses of up to this many characters are tried

LocalName == <<"l", "o", "c", "a", "l">>

\* how a call ends: with an address, with an error, or in a run-time panic
\* (index out of range)
Address(m, r, p) == [kind |-> "address", Machine |-> m, Rig |-> r, Polecat |-> p]
ParseError == [kind |-> "error"]
Panic == [kind |-> "panic"]

\* rigPolecat[0], rigPolecat[1] of a split that may have one piece only
RigPolecat(m, rigPolecat) ==
    IF Len(rigPolecat) < 2 THEN Panic
    ELSE Address(m, rigPolecat[1], rigPolecat[2])

ParseAddressNoMachine(addr) ==
    RigPolecat(LocalName, SplitN(addr, "/", 2))

ParseAddress(addr) ==
    IF Len(SplitN(addr, ":", 2)) = 2
    THEN RigPolecat(SplitN(addr, ":", 2)[1],
                    SplitN(SplitN(addr, ":", 2)[2], "/", 2))
    ELSE RigPolecat(LocalName, SplitN(addr, "/", 2))

AddrTexts == StringsUpTo({"a", "b", "/", ":"}, MaxAddrLen)

ApplyParseAddress ==
    /\ addrIn # <<>>
    /\ addrOut = <<>>
    /\ addrOut' = <<ParseAddress(addrIn[1])>>
    /\ UNCHANGED <<rawID, refID, ccArgs, ccOut, addrIn>>
    /\ UNCHANGED <<chatVars, obsVars, schedVars, funVars, fedVars, textVars>>

-----------------------------------------------------------------------------
(* extractIssueID, CheckConvoysForIssue and ParseAddress applied to inputs *)

InitPure ==
    /\ IdleText
    /\ IdleChat
    /\ IdleSched
    /\ IdleFun
    /\ IdleFed
    /\ refID = <<>>
    /\ ccOut = <<>>
    /\ addrOut = <<>>
    /\ \/ /\ rawID \in {<<id>> : id \in RawIDs}
          /\ ccArgs = NoCall
          /\ addrIn = <<>>
       \/ /\ rawID = <<>>
          /\ ccArgs \in CheckArgs
          /\ addrIn = <<>>
       \/ /\ rawID = <<>>
          /\ ccArgs = NoCall
          /\ addrIn \in {<<a>> : a \in AddrTexts}

NextPure ==
    \/ ApplyExtractIssueID
    \/ ApplyCheckConvoysForIssue
    \/ ApplyParseAddress

SpecPure == InitPure /\ [][NextPure]_vars

-----------------------------------------------------------------------------
(* federation.Registry, comms.MailRouter *)

NumCallers == 2        \* goroutines that call the registry and the router
MaxCalls == 2          \* calls started in one run

Callers == 1..NumCallers

\* r.machines: the configured machines and their Type, a string nothing
\* validates.  "w" is reached over ssh, "g" is a gcp instance, "u" carries a
\* Type the switch of GetConnection has no case for.
Machines ==
    (LocalName :> "local") @@ (<<"w">> :> "ssh") @@ (<<"g">> :> "gcp")
    @@ (<<"u">> :> "")

\* the names a caller may ask for; "n" is not configured
MachineNames == DOMAIN Machines \cup {<<"n">>}

\* the recipients of the messages handed to Deliver
Recipients ==
    { <<"a", "/", "b">>, <<"w", ":", "a", "/", "b">>,
      <<"u", ":", "a", "/", "b">>, <<"n", ":", "a", "/", "b">>,
      <<"a">>, <<"w", ":", "a">>, <<"a", "/">>, <<"w", ":", "/", "b">>,
      <<"a", "/", "b", "/", "a">>,
      <<"a", "/", ".">>, <<"a", "/", ".", ".">> }

\* a nil Connection
NilConn == [backend |-> "nil", host |-> <<>>, id |-> 0]

NewConnNoGcp(type, name, id) ==
    CASE type = "local" -> [backend |-> "local", host |-> name, id |-> id]
      [] type = "ssh" -> [backend |-> "ssh", host |-> name, id |-> id]
      [] OTHER -> [backend |-> "nil", host |-> <<>>, id |-> 0]

\* the Connection the switch on machine.Type constructs; `id` tells one
\* constructed value from another
NewConn(type, name, id) ==
    CASE type = "local" -> [backend |-> "local", host |-> name, id |-> id]
      [] type \in {"ssh", "gcp"} -> [backend |-> "ssh", host |-> name, id |-> id]
      [] OTHER -> NilConn

\* The identities a newly constructed Connection can have.  LocalConnection
\* is a zero-size struct: pointers to distinct zero-size values may or may
\* not be equal (identity 0 is the shared one).
NewIds(type, n) == IF type = "local" THEN {0, n + 1} ELSE {n + 1}

ResolveNilNil(name, id) ==
    IF name \notin DOMAIN Machines
    THEN [conn |-> NilConn, err |-> "nil"]
    ELSE [conn |-> NewConn(Machines[name], name, id), err |-> "nil"]

\* GetConnection after a cache miss: the look-up in r.machines and the switch
Resolve(name, id) ==
    IF name \notin DOMAIN Machines
    THEN [conn |-> NilConn, err |-> "ErrMachineNotFound"]
    ELSE [conn |-> NewConn(Machines[name], name, id), err |-> "nil"]

CachedNothing(cache, name, conn) == cache

\* r.conns[name] = conn
Cached(cache, name, conn) ==
    [n \in DOMAIN cache \cup {name} |-> IF n = name THEN conn ELSE cache[n]]

\* path.Clean over the elements of a path: empty and "." elements go; ".."
\* takes away the element before it, goes itself at the root, and stays at
\* the start of a path that is not rooted
RECURSIVE CleanElems(_, _, _)
CleanElems(elems, out, rooted) ==
    IF elems = <<>> THEN out
    ELSE LET e == Head(elems)
         IN  IF e = <<>> \/ e = <<".">>
             THEN CleanElems(Tail(elems), out, rooted)
             ELSE IF e # <<".", ".">>
             THEN CleanElems(Tail(elems), Append(out, e), rooted)
             ELSE IF out # <<>> /\ out[Len(out)] # <<".", ".">>
             THEN CleanElems(Tail(elems), SubSeq(out, 1, Len(out) - 1), rooted)
             ELSE IF rooted
             THEN CleanElems(Tail(elems), out, rooted)
             ELSE CleanElems(Tail(elems), Append(out, e), rooted)

\* path.Clean: the shortest path equal to `path`; "." for the empty one
Clean(path) ==
    LET rooted == path # <<>> /\ path[1] = "/"
        body == Join(CleanElems(Split(path, "/"), <<>>, rooted), <<"/">>)
    IN  IF rooted THEN <<"/">> \o body
        ELSE IF body = <<>> THEN <<".">>
        ELSE body

\* filepath.Join: the empty elements are dropped, the others joined with '/',
\* the result cleaned; with no element left the result is empty
FilepathJoin(elems) ==
    LET given == SelectSeq(elems, LAMBDA e : e # <<>>)
    IN  IF given = <<>> THEN <<>> ELSE Clean(Join(given, <<"/">>))

MailDir == <<"m", "a", "i", "l">>
InboxFile == <<"i", "n", "b", "o", "x", ".", "j", "s", "o", "n", "l">>

\* a caller that has made no call yet
NoAddr == [kind |-> "none"]
NoTarget == [host |-> <<>>, path |-> <<>>]
IdleCaller ==
    [pc |-> "idle", op |-> "none", name |-> <<>>, rcpt |-> <<>>,
     addr |-> NoAddr, conn |-> NilConn, err |-> "nil", regErr |-> "nil",
     appends |-> 0, wrote |-> 0, cacheWrites |-> 0, target |-> NoTarget]

InitFed ==
    /\ IdleText
    /\ IdleChat
    /\ IdleSched
    /\ IdleFun
    /\ IdlePure
    /\ proc = [p \in Callers |-> IdleCaller]
    /\ conns = <<>>
    /\ built = [n \in MachineNames |-> 0]
    /\ handedOut = [n \in MachineNames |-> {}]
    /\ files = <<>>
    /\ calls = 0
    /\ halted = "no"
    /\ serial \in BOOLEAN

\* a caller may start a call
MayCall(p) ==
    /\ halted = "no"
    /\ calls < MaxCalls
    /\ proc[p].pc \in {"idle", "done"}
    /\ serial => \A q \in Callers : proc[q].pc \in {"idle", "done"}

\* One run concerns one machine: a call may ask for the name that the calls
\* before it asked for.
SameMachine(name) ==
    \A q \in Callers : proc[q].op = "none" \/ proc[q].name = name

\* another caller is about to write r.conns
WriterAt(p) == \E q \in Callers \ {p} : proc[q].pc = "store"

\* where a call goes once GetConnection has returned without error
AfterResolve(c) == IF c.op = "Deliver" THEN "append" ELSE "done"

\* GetConnection from its entry to its first return or to the point before
\* the cache is written, for the call `c` that caller p has just started:
\*   `if conn, ok := r.conns[name]; ok { return conn, nil }`
\*   `machine, ok := r.machines[name]; if !ok { return nil, ErrMachineNotFound }`
\*   the switch on machine.Type.
\* Reading the map while another goroutine writes it is a data race: the read
\* goes through, or the run time ends the program ("concurrent map read and
\* map write").
Enter(p, c) ==
    \/ /\ WriterAt(p)
       /\ halted' = "fatal"
       /\ proc' = [proc EXCEPT ![p] = [c EXCEPT !.pc = "check"]]
       /\ UNCHANGED <<built, handedOut>>
    \/ /\ c.name \in DOMAIN conns
       /\ proc' = [proc EXCEPT ![p] = [c EXCEPT !.pc = AfterResolve(c),
                                                !.conn = conns[c.name]]]
       /\ handedOut' = [handedOut EXCEPT ![c.name] = @ \cup {conns[c.name]}]
       /\ UNCHANGED <<built, halted>>
    \/ /\ c.name \notin DOMAIN conns
       /\ \E id \in (IF c.name \in DOMAIN Machines
                      THEN NewIds(Machines[c.name], built[c.name])
                      ELSE {0}) :
             LET r == Resolve(c.name, id)
             IN IF r.err # "nil"
                THEN /\ proc' = [proc EXCEPT ![p] =
                                    [c EXCEPT !.pc = "done", !.conn = r.conn,
                                              !.err = r.err, !.regErr = r.err]]
                     /\ UNCHANGED built
                ELSE /\ proc' = [proc EXCEPT ![p] =
                                    [c EXCEPT !.pc = "store", !.conn = r.conn]]
                     /\ built' = [built EXCEPT ![c.name] =
                                     IF r.conn = NilConn THEN @ ELSE @ + 1]
       /\ UNCHANGED <<handedOut, halted>>

\* a caller calls r.GetConnection(name)
GetConnection(p) ==
    /\ UNCHANGED <<chatVars, obsVars, schedVars, funVars, pureVars, textVars>>
    /\ MayCall(p)
    /\ \E name \in {n \in MachineNames : SameMachine(n)} :
          Enter(p, [IdleCaller EXCEPT !.op = "GetConnection", !.name = name])
    /\ calls' = calls + 1
    /\ UNCHANGED <<conns, files, serial>>

\* a caller calls r.Deliver(msg): `addr, _ := identity.ParseAddress(...)`, then
\* `conn, err := r.registry.GetConnection(addr.Machine)`
Deliver(p) ==
    /\ UNCHANGED <<chatVars, obsVars, schedVars, funVars, pureVars, textVars>>
    /\ MayCall(p)
    /\ \E rcpt \in Recipients :
          IF ParseAddress(rcpt) = Panic
          THEN /\ proc' = [proc EXCEPT ![p] =
                              [IdleCaller EXCEPT !.pc = "panicked",
                                                 !.op = "Deliver",
                                                 !.rcpt = rcpt,
                                                 !.addr = Panic]]
               /\ halted' = "panic"
               /\ UNCHANGED <<built, handedOut>>
          ELSE /\ SameMachine(ParseAddress(rcpt).Machine)
               /\ Enter(p, [IdleCaller EXCEPT
                                !.op = "Deliver",
                                !.rcpt = rcpt,
                                !.addr = ParseAddress(rcpt),
                                !.name = ParseAddress(rcpt).Machine])
    /\ calls' = calls + 1
    /\ UNCHANGED <<conns, files, serial>>

\* `r.conns[name] = conn; return conn, nil`.  Writing the map while another
\* goroutine writes it is a data race: the write goes through, or the run
\* time ends the program ("concurrent map writes").
Store(p) ==
    /\ UNCHANGED <<chatVars, obsVars, schedVars, funVars, pureVars, textVars>>
    /\ halted = "no"
    /\ proc[p].pc = "store"
    /\ \/ /\ WriterAt(p)
          /\ halted' = "fatal"
          /\ UNCHANGED <<proc, conns, handedOut>>
       \/ /\ conns' = Cached(conns, proc[p].name, proc[p].conn)
          /\ proc' = [proc EXCEPT ![p].pc = AfterResolve(proc[p]),
                                  ![p].cacheWrites = @ + 1]
          /\ handedOut' = [handedOut EXCEPT ![proc[p].name] =
                              @ \cup {proc[p].conn}]
          /\ UNCHANGED halted
    /\ UNCHANGED <<built, files, calls, serial>>

\* the record files holds for an inbox file that may not exist yet
Records(target) == IF target \in DOMAIN files THEN files[target] ELSE 0

\* `return conn.AppendFile(mailboxPath, msg.ToJSONL())`: a method call on a
\* nil Connection panics; a Transport appends the record or reports an error
AppendFile(p) ==
    /\ UNCHANGED <<chatVars, obsVars, schedVars, funVars, pureVars, textVars>>
    /\ halted = "no"
    /\ proc[p].pc = "append"
    /\ IF proc[p].conn = NilConn
       THEN /\ proc' = [proc EXCEPT ![p].pc = "panicked"]
            /\ halted' = "panic"
            /\ UNCHANGED files
       ELSE LET target ==
                    [host |-> proc[p].conn.host,
                     path |-> FilepathJoin(<<proc[p].addr.Rig,
                                             proc[p].addr.Polecat,
                                             MailDir, InboxFile>>)]
            IN \E ok \in BOOLEAN :
                  /\ proc' = [proc EXCEPT ![p].pc = "done",
                                          ![p].appends = @ + 1,
                                          ![p].target = target,
                                          ![p].wrote = IF ok THEN @ + 1 ELSE @,
                                          ![p].err = IF ok THEN "nil"
                                                     ELSE "ErrAppend"]
                  /\ files' = IF ok
                              THEN [t \in DOMAIN files \cup {target} |->
                                       IF t = target THEN Records(target) + 1
                                       ELSE files[t]]
                              ELSE files
                  /\ UNCHANGED halted
    /\ UNCHANGED <<conns, built, handedOut, calls, serial>>

NextFed ==
    \E p \in Callers :
        \/ GetConnection(p)
        \/ Deliver(p)
        \/ Store(p)
        \/ AppendFile(p)

SpecFed == InitFed /\ [][NextFed]_vars

-----------------------------------------------------------------------------
(* cleanResponseLines and extractResponse applied to inputs *)

MaxTextLines == 3      \* captures of up to this many lines are tried

\* lines of a pane: blank ones, genuine text, the UI chrome in its forms, and
\* lines with white space other than ' ' around them
CleanPool ==
    { <<>>, <<" ">>, <<"o", "k">>, <<"-", "a">>,
      <<"-", "-">>, <<"-", " ", "-">>, <<" ", "-", "-">>,
      <<">">>, <<">", " ">>, <<">", " ", "h", "i">>, <<">", "h", "i">>,
      BypassPhrase, <<"n", "o", " ">> \o BypassPhrase,
      <<"^", "^", " ", "o", "n">>, <<"^", " ", "o", "n">>,
      <<"NBSP">>, <<"NBSP", "-", "-">>, <<"o", "k", "VT">> }

ExtractPool ==
    { <<>>, <<"o", "k">>, <<"-", "-">>, <<">", " ", "h", "i">>,
      <<"h", "i", "!">> }

SeqsUpTo(pool, n) == UNION {[1..k -> pool] : k \in 0..n}

InitText ==
    /\ IdleChat
    /\ IdleSched
    /\ IdleFun
    /\ IdlePure
    /\ IdleFed
    /\ txtOut = <<>>
    /\ \/ txtIn \in [fn : {"clean"}, lines : SeqsUpTo(CleanPool, MaxTextLines),
                      before : {0}, msg : {<<>>}]
       \/ txtIn \in [fn : {"extract"},
                      lines : SeqsUpTo(ExtractPool, MaxTextLines),
                      before : 0..(MaxTextLines + 1), msg : {Msg, <<>>}]

ApplyCleanResponseLines ==
    /\ UNCHANGED <<chatVars, obsVars, schedVars, funVars, pureVars, fedVars>>
    /\ txtIn.fn = "clean"
    /\ txtOut = <<>>
    /\ txtOut' = <<cleanResponseLines(txtIn.lines)>>
    /\ UNCHANGED txtIn

ApplyExtractResponse ==
    /\ UNCHANGED <<chatVars, obsVars, schedVars, funVars, pureVars, fedVars>>
    /\ txtIn.fn = "extract"
    /\ txtOut = <<>>
    /\ txtOut' = <<extractResponse(txtIn.lines, txtIn.before, txtIn.msg)>>
    /\ UNCHANGED txtIn

NextText ==
    \/ ApplyCleanResponseLines
    \/ ApplyExtractResponse

SpecText == InitText /\ [][NextText]_vars

-----------------------------------------------------------------------------
(* gt mayor chat *)

InitChat ==
    /\ IdleText
    /\ IdleSched
    /\ IdleFun
    /\ IdlePure
    /\ IdleFed
    /\ pc = "start"
    /\ now = 0
    /\ message = <<>>
    /\ timeout \in Timeouts
    /\ beforeLen = 0
    /\ deadline = 0
    /\ lastContent = <<>>
    /\ lastChangeTime = ZeroTime
    /\ firstCheck = TRUE
    /\ result = "none"
    /\ response = <<>>
    /\ running = "unchecked"
    /\ nCaptures = 0
    /\ nPolls = 0
    /\ nSends = 0
    /\ captureFailed = FALSE
    /\ capsAfterFail = 0
    /\ pollStart = 0
    /\ obsLines = <<>>
    /\ obsRunStart = 0
    /\ obsSame = FALSE
    /\ obsSpan = 0
    /\ obsChanges = 0
    /\ obsStableSeen = FALSE
    /\ sendFailed = FALSE

\* the command ends with an error `kind`
Fail(kind) ==
    /\ pc' = "done"
    /\ result' = kind

\* `running, err := mgr.IsRunning()`: may the command go on to the session?
MayProceedIgnoringError(isRunning, err) == isRunning
MayProceed(isRunning, err) == ~err /\ isRunning

\* runMayorChat up to the call of sendAndCaptureResponse
RunMayorChat ==
    /\ UNCHANGED <<schedVars, funVars, pureVars, fedVars, textVars>>
    /\ pc = "start"
    /\ \E hasArg \in BOOLEAN, text \in Arguments \cup StdinTexts,
          readOk \in BOOLEAN, wsOk \in BOOLEAN, mgrOk \in BOOLEAN,
          isRunning \in BOOLEAN, err \in BOOLEAN :
          /\ text \in (IF hasArg THEN Arguments ELSE StdinTexts)
          /\ IF ~hasArg /\ ~readOk
             THEN /\ Fail("err_stdin")
                  /\ UNCHANGED <<message, running>>
             ELSE LET msg == IF hasArg THEN text ELSE TrimSpace(text)
                  IN
                  /\ message' = msg
                  /\ IF msg = <<>> THEN Fail("err_message") /\ UNCHANGED running
                     ELSE IF ~wsOk THEN Fail("err_workspace") /\ UNCHANGED running
                     ELSE IF ~mgrOk THEN Fail("err_manager") /\ UNCHANGED running
                     ELSE /\ running' = (IF err THEN "error"
                                      ELSE IF isRunning THEN "running"
                                      ELSE "not_running")
                          /\ IF MayProceed(isRunning, err)
                             THEN pc' = "baseline" /\ UNCHANGED result
                             ELSE IF err THEN Fail("err_status")
                             ELSE Fail("err_not_running")
    /\ UNCHANGED <<now, timeout, beforeLen, deadline, lastContent, lastChangeTime,
                   firstCheck, response, nCaptures, nPolls, nSends, captureFailed,
                   capsAfterFail, pollStart, obsLines, obsRunStart, obsSame,
                   obsSpan, obsChanges, obsStableSeen, sendFailed>>

\* a capture call is issued
CaptureIssued ==
    /\ nCaptures' = nCaptures + 1
    /\ capsAfterFail' = IF captureFailed THEN capsAfterFail + 1 ELSE capsAfterFail

\* `beforeLines, err := t.CapturePaneLines(sessionName, 10)`
BaselineCapture ==
    /\ UNCHANGED <<schedVars, funVars, pureVars, fedVars, textVars>>
    /\ pc = "baseline"
    /\ CaptureIssued
    /\ \E ok \in BOOLEAN, pane \in Panes, d \in Delays :
          /\ now' = now + d
          /\ IF ok
             THEN /\ beforeLen' = Len(pane)
                  /\ pc' = "send"
                  /\ UNCHANGED <<result, captureFailed>>
             ELSE /\ Fail("err_initial")
                  /\ captureFailed' = TRUE
                  /\ UNCHANGED beforeLen
    /\ UNCHANGED <<message, timeout, deadline, lastContent, lastChangeTime,
                   firstCheck, response, running, nPolls, nSends, pollStart,
                   obsLines, obsRunStart, obsSame, obsSpan, obsChanges,
                   obsStableSeen, sendFailed>>

\* `if err := t.NudgeSession(sessionName, message); err != nil`
SendErrorIgnored(ok) == FALSE
SendError(ok) == ~ok

\* `t.NudgeSession(sessionName, message)`, then the set-up of the polling loop
Nudge ==
    /\ UNCHANGED <<schedVars, funVars, pureVars, fedVars, textVars>>
    /\ pc = "send"
    /\ nSends' = nSends + 1
    /\ \E ok \in BOOLEAN, d \in Delays :
          /\ now' = now + d
          /\ sendFailed' = ~ok
          /\ IF ~SendError(ok)
             THEN /\ deadline' = now' + timeout
                  /\ pollStart' = now'
                  /\ lastContent' = <<>>
                  /\ lastChangeTime' = ZeroTime
                  /\ firstCheck' = TRUE
                  /\ pc' = "loop"
                  /\ UNCHANGED result
             ELSE /\ Fail("err_send")
                  /\ UNCHANGED <<deadline, pollStart, lastContent, lastChangeTime,
                                 firstCheck>>
    /\ UNCHANGED <<message, timeout, beforeLen, response, running, nCaptures,
                   nPolls, captureFailed, capsAfterFail, obsLines, obsRunStart,
                   obsSame, obsSpan, obsChanges, obsStableSeen>>

\* `time.Now().Before(deadline)`
BeforeDeadlineEarly(t, dl) == t + PollInterval < dl
BeforeDeadline(t, dl) == t < dl

\* `for time.Now().Before(deadline) { ... }`, and the return after the loop
LoopCheck ==
    /\ UNCHANGED <<schedVars, funVars, pureVars, fedVars, textVars>>
    /\ pc = "loop"
    /\ IF BeforeDeadline(now, deadline)
       THEN pc' = "poll" /\ UNCHANGED result
       ELSE Fail("timeout")
    /\ UNCHANGED <<now, message, timeout, beforeLen, deadline, lastContent,
                   lastChangeTime, firstCheck, response, obsVars>>

\* `!firstCheck && time.Since(lastChangeTime) >= stabilityRequired`
SettledStrict(first, t, last) == ~first /\ t - last > StabilityRequired
SettledEarly(first, t, last) == ~first /\ t - last >= PollInterval
SettledIgnoringFirstCheck(first, t, last) == t - last >= StabilityRequired
Settled(first, t, last) == ~first /\ t - last >= StabilityRequired

\* the capture of a poll returned an error
PollErrorRetried ==
    /\ pc' = "sleep"
    /\ UNCHANGED result
PollError == Fail("err_capture")

\* the text extracted from the capture the loop settled on
SettledResponse(lines) == extractResponse(lines, beforeLen, message)

\* what the observer of the session notes at a poll that captured `lines` at `t`
Observe(lines, t) ==
    LET same == nPolls > 0 /\ Join(lines, NL) = Join(obsLines, NL)
        changed == IF nPolls = 0 THEN Join(lines, NL) # <<>> ELSE ~same
        start == IF same THEN obsRunStart ELSE t
        changes == IF changed THEN Min(obsChanges + 1, MaxChanges) ELSE obsChanges
    IN  /\ obsLines' = lines
        /\ obsSame' = same
        /\ obsRunStart' = start
        /\ obsSpan' = t - start
        /\ obsChanges' = changes
        /\ obsStableSeen' =
              (obsStableSeen \/ (same /\ changes > 0 /\ t - start >= StabilityRequired))

\* one poll: capture, compare with the last content, settle or go to sleep
Poll ==
    /\ UNCHANGED <<schedVars, funVars, pureVars, fedVars, textVars>>
    /\ pc = "poll"
    /\ CaptureIssued
    /\ nPolls' = nPolls + 1
    /\ \E ok \in BOOLEAN, currentLines \in Panes, d \in Delays :
          /\ now' = now + d
          /\ IF ~ok
             THEN /\ PollError
                  /\ captureFailed' = TRUE
                  /\ UNCHANGED <<lastContent, lastChangeTime, firstCheck, response,
                                 obsLines, obsRunStart, obsSame, obsSpan,
                                 obsChanges, obsStableSeen>>
             ELSE LET currentContent == Join(currentLines, NL)
                  IN  /\ Observe(currentLines, now')
                      /\ UNCHANGED captureFailed
                      /\ IF currentContent # lastContent
                         THEN /\ lastContent' = currentContent
                              /\ lastChangeTime' = now'
                              /\ firstCheck' = FALSE
                              /\ pc' = "sleep"
                              /\ UNCHANGED <<result, response>>
                         ELSE IF Settled(firstCheck, now', lastChangeTime)
                         THEN /\ response' = SettledResponse(currentLines)
                              /\ result' = "ok"
                              /\ pc' = "done"
                              /\ UNCHANGED <<lastContent, lastChangeTime, firstCheck>>
                         ELSE /\ pc' = "sleep"
                              /\ UNCHANGED <<lastContent, lastChangeTime, firstCheck,
                                             result, response>>
    /\ UNCHANGED <<message, timeout, beforeLen, deadline, running, nSends,
                   pollStart, sendFailed>>

\* where the loop body goes after the sleep: back to the loop condition
ResendAfterSleep == "send"
HangAfterSleep == "hung"
AfterSleep == "loop"

\* `time.Sleep(pollInterval)`: at least the interval
Sleep ==
    /\ UNCHANGED <<schedVars, funVars, pureVars, fedVars, textVars>>
    /\ pc = "sleep"
    /\ \E d \in Delays : now' = now + PollInterval + d
    /\ pc' = AfterSleep
    /\ UNCHANGED <<message, timeout, beforeLen, deadline, lastContent,
                   lastChangeTime, firstCheck, result, response, obsVars>>

NextChat ==
    \/ RunMayorChat
    \/ BaselineCapture
    \/ Nudge
    \/ LoopCheck
    \/ Poll
    \/ Sleep

SpecChat == InitChat /\ [][NextChat]_vars

\* the same under the assumption that every call returns and the goroutine
\* keeps running: a step that can be taken is taken
SpecChatLive == SpecChat /\ WF_vars(NextChat)

-----------------------------------------------------------------------------
(* Properties of the session exchange (checked under SpecChat) *)

\* at the latest poll the text had been the same since a poll at least the
\* stability window earlier, and some poll before had shown a change
StableAtLatestPoll ==
    obsSame /\ obsChanges > 0 /\ obsSpan >= StabilityRequired

\* C1: when the poll captures have changed and then stayed identical for at
\* least the stability window, the call has returned at that very poll,
\* successfully, with the extracted and cleaned text of that final capture.
C1_ReturnsWhenSettled ==
    StableAtLatestPoll =>
        /\ pc = "done"
        /\ result = "ok"
        /\ response = cleanResponseLines(ResponseLines(obsLines, beforeLen, message))
        /\ now = obsRunStart + obsSpan

\* the captures changed twice, held for the window, and the call returned the
\* reply before the timeout had elapsed
C1_Witness ==
    /\ result = "ok"
    /\ obsChanges = 2
    /\ StableAtLatestPoll
    /\ now < deadline
    /\ response = ReplyLine

\* C2: the timeout error is returned only at or after start-of-polling +
\* timeout, and a call that polled and never saw the captures unchanged for
\* the stability window ends, unless a call failed, with the timeout error.
C2_TimeoutOnlyAtDeadline ==
    /\ result = "timeout" => now >= pollStart + timeout
    /\ (pc = "done" /\ nSends > 0 /\ ~obsStableSeen
          /\ result \notin {"err_send", "err_capture"}) => result = "timeout"

\* the captures kept changing and the call timed out
C2_Witness ==
    /\ result = "timeout"
    /\ timeout > 0
    /\ nPolls >= 3
    /\ obsChanges >= 3
    /\ ~obsStableSeen

\* C3: a failed capture ends the call with an error: no capture is issued
\* after it, no response text is returned.
C3_CaptureErrorIsFatal ==
    captureFailed =>
        /\ pc = "done"
        /\ result \in {"err_initial", "err_capture"}
        /\ response = <<>>
        /\ capsAfterFail = 0

\* a poll capture failed after earlier polls had succeeded
C3_Witness ==
    /\ captureFailed
    /\ result = "err_capture"
    /\ nPolls >= 3
    /\ obsChanges >= 1

\* C4: the session is captured or written to only after IsRunning answered
\* true without an error; otherwise the command ends with an error and nothing
\* is sent.
C4_NoSessionUseUnlessRunning ==
    /\ (nCaptures > 0 \/ nSends > 0 \/ pc \in {"baseline", "send", "loop", "poll", "sleep"})
          => running = "running"
    /\ running \in {"not_running", "error"} =>
          /\ pc = "done"
          /\ result = (IF running = "error" THEN "err_status" ELSE "err_not_running")
          /\ nCaptures = 0
          /\ nSends = 0

\* the Mayor was not running and the command ended without touching the session
C4_Witness ==
    /\ running = "not_running"
    /\ message = Msg
    /\ pc = "done"
    /\ result = "err_not_running"
    /\ nSends = 0

-----------------------------------------------------------------------------
(* Properties of the scheduler (checked under SpecSched) *)

\* C5: with every Dispatch following its own SelectNextReady, an issue is
\* dispatched at most once unless an external actor re-opens it: after a
\* Dispatch that marked it the issue has an assignee and a status other than
\* open, it is not ready, and SelectNextReady does not return it again.
C5_DispatchedAtMostOnce ==
    /\ \A i \in 1..NumIssues :
          /\ dispatchCount[i] <= 1
          /\ (dispatchCount[i] = 1) =>
                /\ issues[i].Assignee # ""
                /\ issues[i].Status # "open"
                /\ SelectNextReady(issues) # i
    /\ (sched.pc \in {"selected", "cleared"}) => (dispatchCount[sched.sel] = 0)
    /\ (lastPass.op = "Dispatch" /\ lastPass.outcome # "err_mark") =>
          (dispatchCount[lastPass.issue] = 1)

\* an issue has been dispatched to a worker, and a later pass has selected
\* the other issue and found it clear
C5_Witness ==
    \E i \in 1..NumIssues :
        /\ dispatchCount[i] = 1
        /\ issues[i].Assignee = "gastown/polecats/beta"
        /\ sched.pc = "cleared"
        /\ sched.sel # i

\* a step of the scheduler's
SchedulerStep == lastPass'.op # "none"

\* C6 as stated: a step of the scheduler leaves every issue's status as it is
\* or takes it from open to in_progress; it deletes no issue and dispatches
\* only an issue whose status is open.
C6_OnlyOpenToInProgress ==
    [][SchedulerStep =>
          /\ DOMAIN issues' = DOMAIN issues
          /\ \A i \in DOMAIN issues :
                \/ issues'[i].Status = issues[i].Status
                \/ issues[i].Status = "open" /\ issues'[i].Status = "in_progress"
          /\ (lastPass'.op = "Dispatch") => (lastPass'.before = "open")
      ]_vars

\* the statuses an issue can have at its Dispatch: open as it was selected, or
\* hooked by an external hold since
StatusAtDispatch == {"open", "hooked"}

\* what a step of the scheduler may do to the issues
MarksSelectedOnly ==
    SchedulerStep =>
        /\ DOMAIN issues' = DOMAIN issues
        /\ \A i \in DOMAIN issues :
              \/ issues'[i].Status = issues[i].Status
              \/ /\ issues'[i].Status = "in_progress"
                 /\ issues[i].Status \in StatusAtDispatch
                 /\ lastPass'.op = "Dispatch"
                 /\ lastPass'.issue = i
        /\ (lastPass'.op = "Dispatch") => (lastPass'.before \in StatusAtDispatch)

\* C6, amended: a step of the scheduler leaves every issue's status as it is
\* or takes the selected issue to in_progress, from open or, when an external
\* hold came between its selection and its Dispatch, from hooked; it never
\* closes, hooks, re-opens or deletes an issue, and it selects for dispatch
\* only an issue whose status is open.
C6_OnlyToInProgress ==
    /\ [][MarksSelectedOnly]_vars
    /\ []((lastPass.op = "SelectNextReady" /\ lastPass.issue > 0) =>
             (lastPass.before = "open"))
    /\ []((sched.pc \in {"selected", "cleared"}) =>
             (issues[sched.sel].Status \in StatusAtDispatch))

\* an issue was held after the scheduler had selected it, and the Dispatch
\* took it from hooked to in_progress
C6_Witness ==
    /\ lastPass.op = "Dispatch"
    /\ lastPass.outcome = "ok"
    /\ lastPass.before = "hooked"
    /\ issues[lastPass.issue].Status = "in_progress"

-----------------------------------------------------------------------------
(* Properties of the selection and classification functions (SpecFun) *)

Qualifies(issue) ==
    /\ issue.Status = "open"
    /\ issue.Assignee = ""
    /\ issue.IssueType \in {"", "task", "bug", "feature", "chore"}

\* C8: whenever some issue of the list qualifies, SelectNextReady returns the
\* qualifying issue of the smallest index, and it never returns an issue that
\* does not qualify.
C8_FirstQualifying ==
    selected >= 0 =>
        /\ selected > 0 =>
              /\ selected \in 1..Len(tracked)
              /\ Qualifies(tracked[selected])
        /\ \A i \in 1..Len(tracked) : Qualifies(tracked[i]) =>
              (selected > 0 /\ selected <= i)

\* issues that do not qualify come first, two that qualify follow, and the
\* first of the two is returned
C8_Witness ==
    /\ Len(tracked) = 3
    /\ tracked[1].Status = "closed"
    /\ Qualifies(tracked[2])
    /\ Qualifies(tracked[3])
    /\ selected = 2

\* C9: SelectNextReady returns none exactly when no issue of the list
\* qualifies.
C9_NoneIffNoneQualifies ==
    selected >= 0 =>
        (selected = 0 <=> \A i \in 1..Len(tracked) : ~Qualifies(tracked[i]))

\* none is returned for a list whose open issues all carry an assignee
C9_Witness ==
    /\ selected = 0
    /\ Len(tracked) = 3
    /\ \A i \in 1..2 : tracked[i].Status = "open" /\ tracked[i].Assignee # ""
    /\ tracked[3].Status = "closed"

\* C10: IsSlingableType is true exactly for the empty string, task, bug,
\* feature and chore, as the table of TestIsSlingableType has it.
C10_SlingableExactly ==
    slingable # <<>> =>
        /\ slingable[1] = (probe \in {"", "task", "bug", "feature", "chore"})
        /\ <<probe, slingable[1]>> \in SlingableTable

\* an unrecognized type was classified as not slingable
C10_Witness ==
    /\ probe = "unknown"
    /\ slingable = <<FALSE>>

-----------------------------------------------------------------------------
(* Claims: extractIssueID, CheckConvoysForIssue *)

\* the last position of c in s (c occurs in s)
LastIndex(s, c) ==
    CHOOSE i \in 1..Len(s) : s[i] = c /\ \A j \in (i + 1)..Len(s) : s[j] # c

\* C11: a reference with exactly two ':' (three segments) is normalised to the
\* text after the second ':', even when that text is empty; a reference with
\* one ':' or none is returned unchanged; and every case of the test table
\* (gt-abc, external:gt:gt-abc, external:, external:x:, "", ...) gives the
\* result the table expects.
C11_ExtractReferenceID ==
    refID # <<>> =>
        /\ Count(rawID[1], ":") = 2 =>
               refID[1] = SubSeq(rawID[1], LastIndex(rawID[1], ":") + 1,
                                 Len(rawID[1]))
        /\ Count(rawID[1], ":") < 2 => refID[1] = rawID[1]
        /\ \A k \in 1..Len(TestExtractIssueID) :
               rawID[1] = TestExtractIssueID[k].id =>
                   refID[1] = TestExtractIssueID[k].want

\* a three-segment reference with an empty third segment was normalised to ""
C11_Witness ==
    /\ refID = << <<>> >>
    /\ Count(rawID[1], ":") = 2
    /\ Len(rawID[1]) > 2

\* C12: a CheckConvoysForIssue call with a nil store returns none, does not
\* fail and makes no convoy check, whatever the other arguments are (a nil
\* logger included).
C12_NilStoreReturnsNone ==
    (ccOut # <<>> /\ ccArgs.store = "nil") =>
        /\ ccOut[1].result = "none"
        /\ ~ccOut[1].failed
        /\ ccOut[1].checks = 0

\* a call with a nil store and a nil logger has returned
C12_Witness ==
    /\ ccOut # <<>>
    /\ ccArgs.store = "nil"
    /\ ccArgs.logger = "nil"
    /\ ccOut[1].result = "none"

-----------------------------------------------------------------------------
(* Claims: ParseAddress *)

\* a segment of an address: not empty, without the separators
Plain(seg) == seg # <<>> /\ \A i \in 1..Len(seg) : seg[i] \notin {"/", ":"}

\* C16: the address rig/worker is parsed to {local, rig, worker} and the
\* address machine:rig/worker to exactly {machine, rig, worker}, for all
\* segments that are not empty and hold no '/' and no ':'.
C16_WellFormedParsed ==
    addrOut # <<>> =>
        LET a == addrIn[1]
            n == Len(addrIn[1])
        IN /\ \A j \in 1..n :
                  ( /\ a[j] = "/"
                    /\ Plain(SubSeq(a, 1, j - 1))
                    /\ Plain(SubSeq(a, j + 1, n)) )
                  => addrOut[1] = Address(LocalName, SubSeq(a, 1, j - 1),
                                          SubSeq(a, j + 1, n))
           /\ \A i \in 1..n : \A j \in (i + 1)..n :
                  ( /\ a[i] = ":"
                    /\ a[j] = "/"
                    /\ Plain(SubSeq(a, 1, i - 1))
                    /\ Plain(SubSeq(a, i + 1, j - 1))
                    /\ Plain(SubSeq(a, j + 1, n)) )
                  => addrOut[1] = Address(SubSeq(a, 1, i - 1),
                                          SubSeq(a, i + 1, j - 1),
                                          SubSeq(a, j + 1, n))

\* the address a:b/a was parsed
C16_Witness ==
    /\ addrIn = << <<"a", ":", "b", "/", "a">> >>
    /\ addrOut # <<>>
    /\ addrOut[1].kind = "address"

\* C17: an address without '/' (with or without a machine prefix) ends
\* ParseAddress with a parse error: no panic, no address.
C17_NoSlashIsParseError ==
    (addrOut # <<>> /\ Count(addrIn[1], "/") = 0) =>
        addrOut[1].kind = "error"

\* C18: an address that ParseAddress returns has a rig and a worker that are
\* not empty, and no segment of it holds '/' or ':'.
C18_ReturnedAddressIsPlain ==
    (addrOut # <<>> /\ addrOut[1].kind = "address") =>
        /\ Plain(addrOut[1].Machine)
        /\ Plain(addrOut[1].Rig)
        /\ Plain(addrOut[1].Polecat)

-----------------------------------------------------------------------------
(* Claims: Registry.GetConnection *)

\* C13: however first-time GetConnection calls for one machine name
\* interleave, exactly one Transport is constructed for the name and every
\* caller is handed that one instance.
C13_OneTransportPerName ==
    \A n \in MachineNames :
        /\ built[n] <= 1
        /\ Cardinality(handedOut[n]) <= 1

\* a resolution of caller p has returned without error
Resolved(p) ==
    /\ proc[p].op # "none"
    /\ proc[p].pc \in {"append", "done"}
    /\ proc[p].regErr = "nil"

\* C14: when the calls follow one another, a Transport is constructed at most
\* once per machine name, a call that returns without error has left what it
\* returns in the cache under the name, and all calls for the name return the
\* same instance.
C14_CachedOnce ==
    serial =>
        /\ \A n \in MachineNames :
               /\ built[n] <= 1
               /\ Cardinality(handedOut[n]) <= 1
        /\ \A p \in Callers :
               Resolved(p) =>
                   /\ proc[p].name \in DOMAIN conns
                   /\ conns[proc[p].name] = proc[p].conn
                   /\ handedOut[proc[p].name] = {proc[p].conn}

\* a second call, after the first had returned, was served from the cache
C14_Witness ==
    /\ serial
    /\ calls = 2
    /\ \E p \in Callers :
          /\ proc[p].op = "GetConnection"
          /\ proc[p].pc = "done"
          /\ proc[p].cacheWrites = 0
          /\ proc[p].conn # NilConn
          /\ built[proc[p].name] = 1

\* C15: a call for a name that is not configured (and so not cached) ends
\* with ErrMachineNotFound and no Transport, and writes nothing to the cache.
C15_UnknownMachine ==
    /\ DOMAIN conns \subseteq DOMAIN Machines
    /\ \A p \in Callers :
          ( /\ proc[p].op # "none"
            /\ proc[p].pc = "done"
            /\ proc[p].name \notin DOMAIN Machines )
          => /\ proc[p].regErr = "ErrMachineNotFound"
             /\ proc[p].conn = NilConn
             /\ proc[p].cacheWrites = 0
             /\ handedOut[proc[p].name] = {}

\* GetConnection was called for the name "n", which is not configured
C15_Witness ==
    \E p \in Callers :
        /\ proc[p].op = "GetConnection"
        /\ proc[p].pc = "done"
        /\ proc[p].name = <<"n">>
        /\ proc[p].err = "ErrMachineNotFound"

-----------------------------------------------------------------------------
(* Claims: MailRouter.Deliver *)

MailSuffix == <<"/">> \o MailDir \o <<"/">> \o InboxFile

\* The inbox a recipient text names: the file <rig>/<worker>/mail/inbox.jsonl
\* on its machine, when the text is rig/worker or machine:rig/worker with
\* segments that are not empty and hold no separator; nothing otherwise.
ExpectedTargets(a) ==
    {[host |-> LocalName,
      path |-> SubSeq(a, 1, j - 1) \o <<"/">> \o SubSeq(a, j + 1, Len(a))
               \o MailSuffix] :
        j \in {k \in 1..Len(a) : /\ a[k] = "/"
                                 /\ Plain(SubSeq(a, 1, k - 1))
                                 /\ Plain(SubSeq(a, k + 1, Len(a)))}}
    \cup
    {[host |-> SubSeq(a, 1, ij[1] - 1),
      path |-> SubSeq(a, ij[1] + 1, ij[2] - 1) \o <<"/">>
               \o SubSeq(a, ij[2] + 1, Len(a)) \o MailSuffix] :
        ij \in {x \in (1..Len(a)) \X (1..Len(a)) :
                   /\ x[1] < x[2]
                   /\ a[x[1]] = ":"
                   /\ a[x[2]] = "/"
                   /\ Plain(SubSeq(a, 1, x[1] - 1))
                   /\ Plain(SubSeq(a, x[1] + 1, x[2] - 1))
                   /\ Plain(SubSeq(a, x[2] + 1, Len(a)))}}

\* C19: a Deliver call whose recipient does not parse returns
\* AddressParseError, a Deliver call whose machine the Registry cannot resolve
\* returns the Registry's error; neither issues an AppendFile nor writes to
\* an inbox.
C19_DeliverFailsCleanly ==
    \A p \in Callers :
        (proc[p].op = "Deliver" /\ proc[p].pc \in {"done", "panicked"}) =>
            /\ ExpectedTargets(proc[p].rcpt) = {} =>
                   /\ proc[p].pc = "done"
                   /\ proc[p].err = "AddressParseError"
                   /\ proc[p].appends = 0
                   /\ proc[p].wrote = 0
            /\ proc[p].regErr # "nil" =>
                   /\ proc[p].err = proc[p].regErr
                   /\ proc[p].appends = 0
                   /\ proc[p].wrote = 0

\* the half of C19 that the code keeps: a Registry error is returned as it is,
\* and nothing is appended
RegistryErrorPropagated ==
    \A p \in Callers :
        (proc[p].op = "Deliver" /\ proc[p].regErr # "nil") =>
            /\ proc[p].pc = "done"
            /\ proc[p].err = proc[p].regErr
            /\ proc[p].appends = 0
            /\ proc[p].wrote = 0

\* C20: a Deliver call issues at most one AppendFile, and only to the file
\* <rig>/<worker>/mail/inbox.jsonl on the machine of its recipient; a call
\* that returns no error has appended exactly one record; a call whose
\* AppendFile failed returns that error, having issued the one AppendFile.
C20_OneAppendToInbox ==
    \A p \in Callers :
        proc[p].op = "Deliver" =>
            /\ proc[p].appends <= 1
            /\ proc[p].appends = 1 =>
                   proc[p].target \in ExpectedTargets(proc[p].rcpt)
            /\ (proc[p].pc = "done" /\ proc[p].err = "nil") =>
                   (proc[p].appends = 1 /\ proc[p].wrote = 1)
            /\ (proc[p].pc = "done" /\ proc[p].err = "ErrAppend") =>
                   (proc[p].appends = 1 /\ proc[p].wrote = 0)

\* a recipient with a segment "." or "..", which filepath.Join resolves
HasDotSegment(a) ==
    \E seg \in {<<".">>, <<".", ".">>} :
        \E i \in 1..Len(a) :
            /\ i + Len(seg) - 1 <= Len(a)
            /\ SubSeq(a, i, i + Len(seg) - 1) = seg
            /\ (i = 1 \/ a[i - 1] \in {"/", ":"})
            /\ (i + Len(seg) - 1 = Len(a) \/ a[i + Len(seg)] \in {"/", ":"})

\* what C20 asks, for the calls whose recipient is rig/worker or
\* machine:rig/worker with no segment "." or ".."
WellFormedDeliverAppendsOnce ==
    \A p \in Callers :
        ( /\ proc[p].op = "Deliver"
          /\ ExpectedTargets(proc[p].rcpt) # {}
          /\ ~HasDotSegment(proc[p].rcpt) ) =>
            /\ proc[p].appends <= 1
            /\ proc[p].appends = 1 =>
                   proc[p].target \in ExpectedTargets(proc[p].rcpt)
            /\ (proc[p].pc = "done" /\ proc[p].err = "nil") =>
                   (proc[p].appends = 1 /\ proc[p].wrote = 1)
            /\ (proc[p].pc = "done" /\ proc[p].err = "ErrAppend") =>
                   (proc[p].appends = 1 /\ proc[p].wrote = 0)

-----------------------------------------------------------------------------
(* Claims: cleanResponseLines, extractResponse *)

\* the lines of a text returned by cleanResponseLines
OutLines(text) == IF text = <<>> THEN <<>> ELSE Split(text, "\n")

Blank(line) == TrimSpace(line) = <<>>

\* the kinds of UI chrome, told by the line without its outer white space
PureRule(line) ==
    /\ ~Blank(line)
    /\ TrimSpace(line)[1] = RuleGlyph
    /\ \A i \in 1..Len(TrimSpace(line)) : TrimSpace(line)[i] \in {RuleGlyph, " "}
BarePrompt(line) == TrimSpace(line) = <<PromptGlyph>>
PromptThenSpace(line) ==
    /\ Len(TrimSpace(line)) >= 2
    /\ SubSeq(TrimSpace(line), 1, 2) = <<PromptGlyph, " ">>
PermissionBanner(line) ==
    \E i \in 1..Len(line) :
        /\ i + Len(BypassPhrase) - 1 <= Len(line)
        /\ SubSeq(line, i, i + Len(BypassPhrase) - 1) = BypassPhrase
SpinnerPrefixed(line) ==
    /\ Len(TrimSpace(line)) >= 2
    /\ TrimSpace(line)[1] = BannerGlyph
    /\ TrimSpace(line)[2] = BannerGlyph

\* a is b with some of its elements left out
RECURSIVE IsSubseq(_, _)
IsSubseq(a, b) ==
    IF a = <<>> THEN TRUE
    ELSE IF b = <<>> THEN FALSE
    ELSE IF Head(a) = Head(b) THEN IsSubseq(Tail(a), Tail(b))
    ELSE IsSubseq(a, Tail(b))

\* C22: the lines cleanResponseLines returns are lines of its input in their
\* order; none of them is a pure rule line, a bare prompt glyph, a
\* permission-mode banner or a line with the spinner prefix; the first and
\* the last of them are not blank.
C22_CleanOutput ==
    (txtIn.fn = "clean" /\ txtOut # <<>>) =>
        LET out == OutLines(txtOut[1])
        IN /\ IsSubseq(out, txtIn.lines)
           /\ \A i \in 1..Len(out) :
                  /\ ~PureRule(out[i])
                  /\ ~BarePrompt(out[i])
                  /\ ~PermissionBanner(out[i])
                  /\ ~SpinnerPrefixed(out[i])
           /\ out # <<>> => (~Blank(out[1]) /\ ~Blank(out[Len(out)]))

\* a rule line before and a blank line after the one genuine line were
\* cleaned away
C22_Witness ==
    /\ txtIn.fn = "clean"
    /\ Len(txtIn.lines) = 3
    /\ txtIn.lines[1] = <<"-", "-">>
    /\ txtIn.lines[3] = <<" ">>
    /\ txtOut = << <<"o", "k">> >>

\* the first line that holds the message (some line does)
FirstWith(lines, m) ==
    CHOOSE i \in 1..Len(lines) :
        /\ Contains(lines[i], m)
        /\ \A j \in 1..(i - 1) : ~Contains(lines[j], m)

HasMessage(lines, m) == \E i \in 1..Len(lines) : Contains(lines[i], m)

\* the lines of s from position i on
From(s, i) == SubSeq(s, i, Len(s))

\* C23: when a line of the capture holds the sent message, the response is
\* the cleaned text of exactly the lines after the first such line: that
\* line and the lines before it give nothing to the response.
C23_AfterMessageLine ==
    ( /\ txtIn.fn = "extract"
      /\ txtOut # <<>>
      /\ HasMessage(txtIn.lines, txtIn.msg) )
    => /\ txtOut[1] =
              cleanResponseLines(From(txtIn.lines,
                                      FirstWith(txtIn.lines, txtIn.msg) + 1))
       /\ IsSubseq(OutLines(txtOut[1]),
                   From(txtIn.lines, FirstWith(txtIn.lines, txtIn.msg) + 1))

\* the echo of the message was the second of three lines and the response is
\* the third line alone
C23_Witness ==
    /\ txtIn.fn = "extract"
    /\ txtIn.msg = Msg
    /\ txtIn.lines = << <<"o", "k">>, <<">", " ", "h", "i">>, <<"h", "i", "!">> >>
    /\ txtOut = << <<"h", "i", "!">> >>

\* C24: when no line of the capture holds the sent message, the response is
\* the cleaned text of the lines from the baseline count on if the capture is
\* longer than the baseline, and of the whole capture otherwise.
C24_Fallback ==
    ( /\ txtIn.fn = "extract"
      /\ txtOut # <<>>
      /\ ~HasMessage(txtIn.lines, txtIn.msg) )
    => txtOut[1] =
          (IF Len(txtIn.lines) > txtIn.before
           THEN cleanResponseLines(From(txtIn.lines, txtIn.before + 1))
           ELSE cleanResponseLines(txtIn.lines))

\* the message was not in the capture and the line after the baseline's one
\* line was returned
C24_Witness ==
    /\ txtIn.fn = "extract"
    /\ txtIn.msg = Msg
    /\ txtIn.before = 1
    /\ txtIn.lines = << <<"-", "-">>, <<"o", "k">> >>
    /\ txtOut = << <<"o", "k">> >>

\* the lines at the positions idx from position i on, in order
RECURSIVE Pick(_, _, _)
Pick(lines, i, idx) ==
    IF i > Len(lines) THEN <<>>
    ELSE IF i \in idx THEN <<lines[i]>> \o Pick(lines, i + 1, idx)
    ELSE Pick(lines, i + 1, idx)

\* the lines that must be in the output when removable(line) tells the
\* non-blank lines that may be removed: the other non-blank lines, and the
\* blank lines between two of them
MustAppear(lines, removable(_)) ==
    LET kept(i) == ~Blank(lines[i]) /\ ~removable(lines[i])
        between(i) == /\ Blank(lines[i])
                      /\ \E j \in 1..(i - 1) : kept(j)
                      /\ \E k \in (i + 1)..Len(lines) : kept(k)
    IN Pick(lines, 1, {i \in 1..Len(lines) : kept(i) \/ between(i)})

BareArtifact(line) ==
    \/ PureRule(line)
    \/ BarePrompt(line)
    \/ PermissionBanner(line)
    \/ SpinnerPrefixed(line)

PromptOrBareArtifact(line) ==
    \/ BareArtifact(line)
    \/ PromptThenSpace(line)

\* C30 as stated: a non-blank line is removed only if it is a pure rule
\* line, a line of the prompt glyph alone, a permission-mode banner or a line
\* starting with the spinner prefix; every other non-blank line and every
\* blank line between two kept lines is in the output.
C30_OnlyBareArtifactsRemoved ==
    (txtIn.fn = "clean" /\ txtOut # <<>>) =>
        IsSubseq(MustAppear(txtIn.lines, BareArtifact), OutLines(txtOut[1]))

\* C30, amended: a non-blank line is removed only if it is a pure rule
\* line, a line of the prompt glyph alone or starting with the prompt glyph
\* and a space, a permission-mode banner or a line starting with the spinner
\* glyph; every other non-blank line and every blank line between two kept
\* lines is in the output.
C30_OnlyArtifactsRemoved ==
    (txtIn.fn = "clean" /\ txtOut # <<>>) =>
        IsSubseq(MustAppear(txtIn.lines, PromptOrBareArtifact),
                 OutLines(txtOut[1]))

\* a prompt line with text was removed; a genuine line and a line that only
\* starts like a rule were kept
C30_Witness ==
    /\ txtIn.fn = "clean"
    /\ txtIn.lines = << <<">", " ", "h", "i">>, <<"o", "k">>, <<"-", "a">> >>
    /\ txtOut = << <<"o", "k", "\n", "-", "a">> >>

-----------------------------------------------------------------------------
(* Properties of sendAndCaptureResponse (checked under SpecChat) *)

\* C25: a response is returned only at a poll whose capture equals the poll
\* before it and at least the stability window after the last poll that saw
\* a change; every poll that sees a change sets the time of the last change
\* to its own time.
C25_ReturnsOnlyWhenStable ==
    /\ (result = "ok") =>
          /\ obsSame
          /\ obsChanges > 0
          /\ obsSpan >= StabilityRequired
          /\ now = obsRunStart + obsSpan
    /\ (obsChanges > 0) => (lastChangeTime = obsRunStart)

\* the captures changed twice and the response was returned at the poll
\* exactly one stability window after the second change
C25_Witness ==
    /\ result = "ok"
    /\ obsChanges = 2
    /\ obsSame
    /\ obsSpan = StabilityRequired
    /\ lastChangeTime = obsRunStart

\* the call went past the baseline capture
PastBaseline ==
    \/ pc \in {"send", "loop", "poll", "sleep"}
    \/ result \in {"ok", "timeout", "err_send", "err_capture"}

\* a step that sends follows the baseline capture alone; a step that captures
\* is the baseline capture before any send, or a poll after the one send
SendAndCapturesInOrder ==
    /\ (nSends' > nSends) =>
          (nSends = 0 /\ nCaptures = 1 /\ nPolls = 0 /\ ~captureFailed)
    /\ (nCaptures' > nCaptures) =>
          (IF nCaptures = 0 THEN nSends = 0 ELSE nSends = 1 /\ nPolls' > nPolls)

\* C26: within a call the baseline capture comes first, then the message is
\* sent, then the polls capture; a call that got past the baseline capture
\* sends the message once, and no call sends it twice.
C26_BaselineSendPollOrder ==
    /\ [](/\ nSends <= 1
          /\ (nSends = 1) => (nCaptures >= 1 /\ PastBaseline)
          /\ (nPolls > 0) => (nSends = 1 /\ nCaptures = nPolls + 1)
          /\ (PastBaseline /\ pc # "send") => nSends = 1)
    /\ [][SendAndCapturesInOrder]_vars

\* the call polled several times, saw the reply, and sent the message once
C26_Witness ==
    /\ result = "ok"
    /\ nPolls >= 5
    /\ nCaptures = nPolls + 1
    /\ nSends = 1

\* C27: when the baseline capture fails the call ends with an error and the
\* message is not sent; when the send fails the call ends with an error and
\* no poll capture is made.
C27_FailuresStopTheCall ==
    /\ (captureFailed /\ nPolls = 0) =>
          /\ pc = "done"
          /\ result = "err_initial"
          /\ nSends = 0
          /\ nCaptures = 1
    /\ sendFailed =>
          /\ pc = "done"
          /\ result = "err_send"
          /\ nPolls = 0
          /\ nCaptures = 1

\* the baseline was captured, the send failed some time later, and the call
\* ended without a poll
C27_Witness ==
    /\ sendFailed
    /\ result = "err_send"
    /\ nSends = 1
    /\ nCaptures = 1
    /\ now > 0

\* C28: while every poll has captured the empty content, no response is
\* returned: the loop goes on to another poll as long as the deadline has not
\* passed, and the call, unless a capture fails, ends with the timeout error
\* at or after the deadline.
C28_NoChangeNoResponse ==
    /\ [](/\ (obsChanges = 0) => (result # "ok" /\ response = <<>>)
          /\ (pc = "done" /\ nSends = 1 /\ ~sendFailed /\ ~captureFailed
                 /\ obsChanges = 0)
              => (result = "timeout" /\ now >= deadline))
    /\ [][(pc = "loop" /\ obsChanges = 0 /\ now < deadline) => pc' = "poll"]_vars

\* the pane stayed empty for well over the stability window and the call
\* timed out
C28_Witness ==
    /\ result = "timeout"
    /\ obsChanges = 0
    /\ obsSame
    /\ obsSpan > StabilityRequired
    /\ nPolls >= 5

\* the ways sendAndCaptureResponse ends
CallResults == {"ok", "err_initial", "err_send", "err_capture", "timeout"}

\* C29: a call of sendAndCaptureResponse ends, with a response, a capture or
\* send error, or the timeout error, and with one of them only; no poll
\* capture is started at or after the deadline.
C29_CallTerminates ==
    /\ (pc = "baseline") ~> (pc = "done" /\ result \in CallResults)
    /\ [](/\ (pc \notin {"start", "done"}) => (result = "none")
          /\ (pc = "done" /\ nCaptures > 0) => (result \in CallResults)
          /\ (response # <<>>) => (result = "ok")
          /\ (pc = "poll") => (now < deadline))
    /\ [][(result # "none") => (result' = result /\ pc' = "done")]_vars

\* the call polled up to the last instant before the deadline and ended
\* with the timeout error
C29_Witness ==
    /\ pc = "done"
    /\ result = "timeout"
    /\ nPolls >= 3
    /\ obsChanges >= 1
    /\ now >= deadline
    /\ now < deadline + PollInterval + PollInterval

-----------------------------------------------------------------------------
(* Properties of Registry.GetConnection: what is returned and cached *)

\* the kinds of machine the switch of GetConnection has a case for
ListedKinds == {"local", "ssh", "gcp"}

====
